---- MODULE Spec2Model ----
(***************************************************************************)
(* The Deployment rollout controller of kubevela                           *)
(* (pkg/controller/common/rollout/workloads/deployment_controller.go,      *)
(* lines 1-462) together with the cluster objects it reads and patches,    *)
(* the pods of the two Deployments, and the rollout driver that calls it.  *)
(***************************************************************************)
EXTENDS Integers, Sequences, FiniteSets, TLC

VARIABLES
    rolloutSpec,    \* c.rolloutSpec: the RolloutPlan (never written)
    rolloutStatus,  \* c.rolloutStatus: the RolloutStatus shared with the driver
    cluster,        \* the two Deployments as the API server holds them
    sourceDeploy,   \* c.sourceDeploy: the controller's copy of the source
    targetDeploy,   \* c.targetDeploy: the controller's copy of the target
    ret,            \* the call that has just returned, with its result
    patches,        \* the client.Patch calls that call made, in order
    phase,          \* the driver's position in the protocol
    submitted       \* the driver: RolloutOneBatchPods has returned done=true
                    \* for the current batch

vars == <<rolloutSpec, rolloutStatus, cluster, sourceDeploy, targetDeploy,
          ret, patches, phase, submitted>>

----------------------------------------------------------------------------
(* Bounds of the model *)

\* the largest desired replica count of the source before the rollout
MaxReplicas == 2
\* the largest number of batches of a plan
MaxBatches == 2
\* the largest number of owner references a Deployment carries
MaxOwnerRefs == 2

----------------------------------------------------------------------------
(* Values *)

\* a nil *int32 (Spec.Replicas unset, RolloutPlan.TargetSize unset)
Nil == -1

\* intstr.IntOrString: an absolute number, a percentage "p%", or a nil pointer
IntVal(n) == [Type |-> "Int", Val |-> n]
Percent(p) == [Type |-> "String", Val |-> p]
NoValue == [Type |-> "Nil", Val |-> 0]

\* the owner reference metav1.NewControllerRef(parentController, AppRollout)
RolloutRef == [Kind |-> "AppRollout", Controller |-> TRUE]
\* a controller reference of some other kind, and a plain owner of another kind
OtherController == [Kind |-> "ReplicaOwner", Controller |-> TRUE]
OtherOwner == [Kind |-> "Application", Controller |-> FALSE]

\* the zero value of apps.Deployment (a freshly constructed controller's copies)
ZeroDeployment ==
    [Replicas |-> Nil, Paused |-> FALSE, Template |-> "",
     OwnerReferences |-> <<>>, StatusReplicas |-> 0, ReadyReplicas |-> 0]

\* no call has returned since the last step of the pods or the driver
NoCall ==
    [op |-> "none", done |-> FALSE, err |-> "nil", fetchErr |-> FALSE,
     hashErr |-> FALSE]

----------------------------------------------------------------------------
(* The batch size calculator *)

\* intstr.GetValueFromIntOrPercent(v, total, roundUp = true): an absolute value
\* as it is, a percentage of total rounded up
GetValueFromIntOrPercent(v, total) ==
    IF v.Type = "Int" THEN v.Val ELSE (v.Val * total + 99) \div 100

\* the sizes of the first n batches, resolved against totalSize and added up
RECURSIVE SumOfBatchSizes(_, _, _)
SumOfBatchSizes(batches, n, totalSize) ==
    IF n = 0 THEN 0
    ELSE SumOfBatchSizes(batches, n - 1, totalSize)
         + GetValueFromIntOrPercent(batches[n].Replicas, totalSize)

\* a slip: the last batch is summed like the others
calculateCurrentTarget_sum(batches, currentBatch, totalSize) ==
    SumOfBatchSizes(batches, currentBatch + 1, totalSize)

\* calculateCurrentTarget: the target size after batch currentBatch (0-based);
\* the last batch takes the whole size, the others the sum for i <= currentBatch
calculateCurrentTarget(batches, currentBatch, totalSize) ==
    IF currentBatch = Len(batches) - 1
    THEN totalSize
    ELSE SumOfBatchSizes(batches, currentBatch + 1, totalSize)

\* calculateCurrentSource: the sum of the batch sizes for i < currentBatch
calculateCurrentSource(batches, currentBatch, totalSize) ==
    SumOfBatchSizes(batches, currentBatch, totalSize)

\* the current batch's MaxUnavailable resolved against targetSize, 0 when nil
maxUnavailOf(batch, targetSize) ==
    IF batch.MaxUnavailable.Type = "Nil" THEN 0
    ELSE GetValueFromIntOrPercent(batch.MaxUnavailable, targetSize)

\* VerifySumOfBatchSizes: the batches before the last must fit in the total;
\* a last batch given as a number must make the sum exact, one given as a
\* percentage absorbs the rounding
VerifySumOfBatchSizes(plan, totalReplicas) ==
    LET n == Len(plan.RolloutBatches)
        earlier == SumOfBatchSizes(plan.RolloutBatches, n - 1, totalReplicas)
        last == plan.RolloutBatches[n].Replicas
    IN  /\ earlier <= totalReplicas
        /\ last.Type = "Int" => earlier + last.Val = totalReplicas

\* a slip: the declared target size is not compared with the total
verifyRolloutBatchReplicaValue_sum(plan, totalReplicas) ==
    VerifySumOfBatchSizes(plan, totalReplicas)

\* verifyRolloutBatchReplicaValue: TRUE when it returns nil
verifyRolloutBatchReplicaValue(plan, totalReplicas) ==
    /\ ~(plan.TargetSize # Nil /\ plan.TargetSize # totalReplicas)
    /\ VerifySumOfBatchSizes(plan, totalReplicas)

\* calculateTargetSize after a successful fetch: source defaults to 1, target to 0
calculateTargetSize(source, target) ==
    (IF source.Replicas # Nil THEN source.Replicas ELSE 1)
    + (IF target.Replicas # Nil THEN target.Replicas ELSE 0)

----------------------------------------------------------------------------
(* Hashes and owner references *)

\* utils.ComputeSpecHash(deploy.Spec): a digest of the whole Deployment spec
\* (replicas, pause flag, pod template), free of collisions
ComputeSpecHash(deploy) == <<deploy.Template, deploy.Replicas, deploy.Paused>>

\* the identifier of a status that has recorded none
NoHash == <<>>

\* a slip: only a controller reference of the rollout's kind counts
HasController_rollout(deploy) ==
    \E i \in 1..Len(deploy.OwnerReferences) :
        /\ deploy.OwnerReferences[i].Controller
        /\ deploy.OwnerReferences[i].Kind = "AppRollout"

\* metav1.GetControllerOf: TRUE when some owner reference is a controller
HasController(deploy) ==
    \E i \in 1..Len(deploy.OwnerReferences) : deploy.OwnerReferences[i].Controller

\* a slip: the hash is compared with the identifier being rolled out
hashUnchanged_new(targetHash, status) ==
    targetHash = status.NewPodTemplateIdentifier

\* line 82: the target's hash equals the last applied identifier
hashUnchanged(targetHash, status) ==
    targetHash = status.LastAppliedPodTemplateIdentifier

\* line 94: Spec.Replicas != pointer.Int32Ptr(0) compares a pointer with a
\* freshly allocated one, which differ whatever the replica count is
replicasPtrDiffers(replicas) == TRUE

\* line 94: the target is "in the middle of updating"
targetMidUpdate(target) ==
    ~target.Paused /\ replicasPtrDiffers(target.Replicas)

\* a slip: every owner reference is taken for the rollout's
isRolloutOwner_any(owner) == TRUE

\* releaseDeployment's match: the rollout's kind and API version
isRolloutOwner(owner) == owner.Kind = "AppRollout"

\* a slip: the loop stops at the first reference of the rollout
RECURSIVE newOwnerList_first(_)
newOwnerList_first(owners) ==
    IF owners = <<>> THEN <<>>
    ELSE IF isRolloutOwner(Head(owners)) THEN Tail(owners)
    ELSE <<Head(owners)>> \o newOwnerList_first(Tail(owners))

\* the owner list releaseDeployment builds, in order
RECURSIVE newOwnerList(_)
newOwnerList(owners) ==
    IF owners = <<>> THEN <<>>
    ELSE IF isRolloutOwner(Head(owners)) THEN newOwnerList(Tail(owners))
    ELSE <<Head(owners)>> \o newOwnerList(Tail(owners))

\* RolloutStatus.RolloutRetry(reason): the status records why it retries
RolloutRetry(status, reason) == [status EXCEPT !.RetryReason = reason]

----------------------------------------------------------------------------
(* The client: Get and Patch.  A call works on a context                  *)
(*   [cluster, source, target, status, patches]                           *)
(* holding the API server's objects, the controller's two copies, the     *)
(* rollout status and the patches made so far.                            *)

Context ==
    [cluster |-> cluster, source |-> sourceDeploy, target |-> targetDeploy,
     status |-> rolloutStatus, patches |-> <<>>]

\* fetchDeployments: f is "ok", or the Get that fails ("source", "target");
\* the source is read first and kept even when the target's Get fails
fetchDeployments(ctx, f) ==
    [ctx EXCEPT !.source = IF f = "source" THEN @ ELSE ctx.cluster.source,
                !.target = IF f = "ok" THEN ctx.cluster.target ELSE @]

\* a slip: the patch adds n to the replica count instead of setting it
patchDeployment_add(ctx, n, which, ok) ==
    LET server == [ctx.cluster[which] EXCEPT !.Replicas = @ + n]
        p == [deploy |-> which, field |-> "replicas", value |-> server.Replicas,
              ok |-> ok]
    IN  IF ok
        THEN [ctx EXCEPT !.cluster[which] = server, ![which] = server,
                         !.patches = Append(@, p)]
        ELSE [ctx EXCEPT ![which].Replicas = server.Replicas,
                         !.patches = Append(@, p)]

\* patchDeployment(target n, deploy): sets the copy's Spec.Replicas and sends
\* the merge patch; on success the copy is the server's answer
patchDeployment(ctx, n, which, ok) ==
    LET server == [ctx.cluster[which] EXCEPT !.Replicas = n]
        p == [deploy |-> which, field |-> "replicas", value |-> n, ok |-> ok]
    IN  IF ok
        THEN [ctx EXCEPT !.cluster[which] = server, ![which] = server,
                         !.patches = Append(@, p)]
        ELSE [ctx EXCEPT ![which].Replicas = n, !.patches = Append(@, p)]

\* a slip: the claim leaves the pause flag as it is
claimDeployment_paused(ctx, which, ok) ==
    LET base == ctx[which]
        owners == Append(base.OwnerReferences, RolloutRef)
        server == [ctx.cluster[which] EXCEPT !.OwnerReferences = owners]
        p == [deploy |-> which, field |-> "claim", value |-> Len(owners), ok |-> ok]
    IN  IF ok
        THEN [ctx EXCEPT !.cluster[which] = server, ![which] = server,
                         !.patches = Append(@, p)]
        ELSE [ctx EXCEPT ![which].OwnerReferences = owners,
                         !.patches = Append(@, p)]

\* claimDeployment: appends the controller reference to the copy's owners,
\* clears the copy's pause flag and sends the difference as a merge patch
claimDeployment(ctx, which, ok) ==
    LET base == ctx[which]
        owners == Append(base.OwnerReferences, RolloutRef)
        server == [ctx.cluster[which] EXCEPT
                      !.OwnerReferences = owners,
                      !.Paused = IF base.Paused THEN FALSE ELSE @]
        p == [deploy |-> which, field |-> "claim", value |-> Len(owners), ok |-> ok]
    IN  IF ok
        THEN [ctx EXCEPT !.cluster[which] = server, ![which] = server,
                         !.patches = Append(@, p)]
        ELSE [ctx EXCEPT ![which].OwnerReferences = owners,
                         ![which].Paused = FALSE,
                         !.patches = Append(@, p)]

\* releaseDeployment's found flag
releaseFound(deploy) ==
    \E i \in 1..Len(deploy.OwnerReferences) : isRolloutOwner(deploy.OwnerReferences[i])

\* releaseDeployment: nothing when the copy carries no rollout reference;
\* else the copy's owners without them, sent as a merge patch; a failed
\* patch records a retry
releaseDeployment(ctx, which, ok) ==
    LET base == ctx[which]
        owners == newOwnerList(base.OwnerReferences)
        server == [ctx.cluster[which] EXCEPT !.OwnerReferences = owners]
        p == [deploy |-> which, field |-> "release", value |-> Len(owners), ok |-> ok]
    IN  IF ~releaseFound(base) THEN ctx
        ELSE IF ok
        THEN [ctx EXCEPT !.cluster[which] = server, ![which] = server,
                         !.patches = Append(@, p)]
        ELSE [ctx EXCEPT ![which].OwnerReferences = owners,
                         !.status = RolloutRetry(@, "patch"),
                         !.patches = Append(@, p)]

\* whether the release call returned an error
releaseFailed(ctx, which, ok) == releaseFound(ctx[which]) /\ ~ok

----------------------------------------------------------------------------
(* The phases of the DeploymentController.  Each yields                    *)
(*   [ctx, done, err]: the context it leaves and what it returns;          *)
(* err is "nil", "fatal" (a non-nil error) or "panic".                     *)

Result(ctx, done, err) == [ctx |-> ctx, done |-> done, err |-> err]

\* the goals of the current batch
targetGoalOf(status) ==
    calculateCurrentTarget(rolloutSpec.RolloutBatches, status.CurrentBatch,
                           status.RolloutTargetSize)
sourceGoalOf(status) ==
    calculateCurrentSource(rolloutSpec.RolloutBatches, status.CurrentBatch,
                           status.RolloutTargetSize)
currentBatchOf(status) == rolloutSpec.RolloutBatches[status.CurrentBatch + 1]

\* VerifySpec on a controller in context ctx; hashErr: utils.ComputeSpecHash
\* returns an error
VerifySpecFrom(ctx, f, hashErr) ==
    LET got == fetchDeployments(ctx, f)
        totalReplicas == calculateTargetSize(got.source, got.target)
        sized == [got EXCEPT !.status.RolloutTargetSize = totalReplicas]
        targetHash == ComputeSpecHash(got.target)
        hashed == [sized EXCEPT !.status.NewPodTemplateIdentifier = targetHash]
    IN  IF f # "ok"
        THEN Result([got EXCEPT !.status = RolloutRetry(@, "fetch")], FALSE, "nil")
        ELSE IF hashErr
        THEN Result([sized EXCEPT !.status = RolloutRetry(@, "hash")], FALSE, "nil")
        ELSE IF hashUnchanged(targetHash, sized.status)
        THEN Result(sized, FALSE, "fatal")
        ELSE IF ~verifyRolloutBatchReplicaValue(rolloutSpec, totalReplicas)
        THEN Result(hashed, FALSE, "fatal")
        ELSE IF targetMidUpdate(got.target)
        THEN Result(hashed, FALSE, "fatal")
        ELSE IF HasController(got.target)
        THEN Result(hashed, FALSE, "fatal")
        ELSE IF HasController(got.source)
        THEN Result(hashed, FALSE, "fatal")
        ELSE Result(hashed, TRUE, "nil")

VerifySpecCall(f, hashErr) == VerifySpecFrom(Context, f, hashErr)

\* Initialize; p1, p2: the claim patch of the source, of the target succeeds
InitializeFrom(ctx, f, p1, p2) ==
    LET got == fetchDeployments(ctx, f)
        one == claimDeployment(got, "source", p1)
        two == claimDeployment(one, "target", p2)
    IN  IF f # "ok"
        THEN Result([got EXCEPT !.status = RolloutRetry(@, "fetch")], FALSE, "nil")
        ELSE IF ~p1
        THEN Result([one EXCEPT !.status = RolloutRetry(@, "patch")], FALSE, "nil")
        ELSE IF ~p2
        THEN Result([two EXCEPT !.status = RolloutRetry(@, "patch")], FALSE, "nil")
        ELSE Result(two, TRUE, "nil")

InitializeCall(f, p1, p2) == InitializeFrom(Context, f, p1, p2)

\* the strategy RolloutOneBatchPods works with: IncreaseFirst when none is set
strategyOf(plan) ==
    IF plan.RolloutStrategy = "" THEN "IncreaseFirst" ELSE plan.RolloutStrategy

\* a slip: the first half raises the target under either strategy
rolloutBatchFirstHalf_target(ctx, strategy, ok) ==
    LET patched == patchDeployment(ctx, targetGoalOf(ctx.status), "target", ok)
        after == IF ok THEN patched
                 ELSE [patched EXCEPT !.status = RolloutRetry(@, "patch")]
    IN  IF strategy \in {"IncreaseFirst", "DecreaseFirst"}
        THEN [ctx |-> after, err |-> "nil"]
        ELSE [ctx |-> ctx, err |-> "fatal"]

\* a slip: the two strategies are taken for each other
rolloutBatchFirstHalf_swapped(ctx, strategy, ok) ==
    LET patched ==
            IF strategy = "DecreaseFirst"
            THEN patchDeployment(ctx, targetGoalOf(ctx.status), "target", ok)
            ELSE patchDeployment(ctx, sourceGoalOf(ctx.status), "source", ok)
        after == IF ok THEN patched
                 ELSE [patched EXCEPT !.status = RolloutRetry(@, "patch")]
    IN  IF strategy \in {"IncreaseFirst", "DecreaseFirst"}
        THEN [ctx |-> after, err |-> "nil"]
        ELSE [ctx |-> ctx, err |-> "fatal"]

\* rolloutBatchFirstHalf: [ctx, err]; a failed patch records a retry, no error
rolloutBatchFirstHalf(ctx, strategy, ok) ==
    LET patched ==
            IF strategy = "IncreaseFirst"
            THEN patchDeployment(ctx, targetGoalOf(ctx.status), "target", ok)
            ELSE patchDeployment(ctx, sourceGoalOf(ctx.status), "source", ok)
        after == IF ok THEN patched
                 ELSE [patched EXCEPT !.status = RolloutRetry(@, "patch")]
    IN  IF strategy \in {"IncreaseFirst", "DecreaseFirst"}
        THEN [ctx |-> after, err |-> "nil"]
        ELSE [ctx |-> ctx, err |-> "fatal"]

\* a slip: the source shrinks whatever the target has ready
targetReadyEnough_always(ctx, targetSize) == TRUE

\* line 344: the target has enough ready pods for the source to shrink
targetReadyEnough(ctx, targetSize) ==
    ctx.target.ReadyReplicas + maxUnavailOf(currentBatchOf(ctx.status), targetSize)
        >= targetSize

\* a slip: the source's desired count is compared, not its pods
sourceShrunk_desired(ctx) == ctx.source.Replicas = sourceGoalOf(ctx.status)

\* line 362: the source has the pods of its goal
sourceShrunk(ctx) == ctx.source.StatusReplicas = sourceGoalOf(ctx.status)

\* a slip: a failed patch of the second half is not reported
rolloutBatchSecondHalf_ignore(ctx, strategy, targetSize, ok) ==
    IF strategy = "IncreaseFirst"
    THEN IF targetReadyEnough(ctx, targetSize)
         THEN [ctx |-> patchDeployment(ctx, sourceGoalOf(ctx.status), "source", ok),
               ok |-> TRUE]
         ELSE [ctx |-> [ctx EXCEPT !.status = RolloutRetry(@, "notReady")],
               ok |-> FALSE]
    ELSE IF strategy = "DecreaseFirst"
    THEN IF sourceShrunk(ctx)
         THEN [ctx |-> patchDeployment(ctx, targetSize, "target", ok), ok |-> TRUE]
         ELSE [ctx |-> [ctx EXCEPT !.status = RolloutRetry(@, "notReady")],
               ok |-> FALSE]
    ELSE [ctx |-> ctx, ok |-> TRUE]

\* rolloutBatchSecondHalf: [ctx, ok]
rolloutBatchSecondHalf(ctx, strategy, targetSize, ok) ==
    LET retry(c, why) == [c EXCEPT !.status = RolloutRetry(@, why)]
    IN  IF strategy = "IncreaseFirst"
        THEN IF targetReadyEnough(ctx, targetSize)
             THEN LET patched == patchDeployment(ctx, sourceGoalOf(ctx.status), "source", ok)
                  IN  IF ok THEN [ctx |-> patched, ok |-> TRUE]
                      ELSE [ctx |-> retry(patched, "patch"), ok |-> FALSE]
             ELSE [ctx |-> retry(ctx, "notReady"), ok |-> FALSE]
        ELSE IF strategy = "DecreaseFirst"
        THEN IF sourceShrunk(ctx)
             THEN LET patched == patchDeployment(ctx, targetSize, "target", ok)
                  IN  IF ok THEN [ctx |-> patched, ok |-> TRUE]
                      ELSE [ctx |-> retry(patched, "patch"), ok |-> FALSE]
             ELSE [ctx |-> retry(ctx, "notReady"), ok |-> FALSE]
        ELSE [ctx |-> ctx, ok |-> TRUE]

\* a slip: the first half is taken only above the rollout's size
inFirstHalf_above(ctx) ==
    ctx.source.Replicas + ctx.target.Replicas > ctx.status.RolloutTargetSize

\* line 154: the replica settings add up to the rollout's size (first half)
inFirstHalf(ctx) ==
    ctx.source.Replicas + ctx.target.Replicas = ctx.status.RolloutTargetSize

\* RolloutOneBatchPods; ok: the replica patch succeeds
RolloutOneBatchPodsFrom(ctx, f, ok) ==
    LET got == fetchDeployments(ctx, f)
        strategy == strategyOf(rolloutSpec)
        first == rolloutBatchFirstHalf(got, strategy, ok)
        targetSize == targetGoalOf(got.status)
        second == rolloutBatchSecondHalf(got, strategy, targetSize, ok)
    IN  IF f # "ok"
        THEN Result(got, FALSE, "nil")
        ELSE IF got.source.Replicas = Nil \/ got.target.Replicas = Nil
        THEN Result(got, FALSE, "panic")
        ELSE IF inFirstHalf(got)
        THEN Result(first.ctx, FALSE, first.err)
        ELSE IF ~second.ok
        THEN Result(second.ctx, FALSE, "nil")
        ELSE Result([second.ctx EXCEPT !.status.UpgradedReplicas = targetSize],
                    TRUE, "nil")

RolloutOneBatchPodsCall(f, ok) == RolloutOneBatchPodsFrom(Context, f, ok)

\* a slip: the tolerance is resolved against the rollout's size
batchNotReady_total(ctx) ==
    LET readyTargetPodCount == ctx.target.ReadyReplicas
        sourcePodCount == ctx.source.StatusReplicas
        sourceGoal == sourceGoalOf(ctx.status)
        maxUnavail == maxUnavailOf(currentBatchOf(ctx.status),
                                   ctx.status.RolloutTargetSize)
    IN  \/ sourcePodCount # sourceGoal
        \/ maxUnavail + readyTargetPodCount + sourcePodCount
               < ctx.status.RolloutTargetSize

\* lines 196-197: the batch is not ready yet
batchNotReady(ctx) ==
    LET readyTargetPodCount == ctx.target.ReadyReplicas
        sourcePodCount == ctx.source.StatusReplicas
        targetGoal == targetGoalOf(ctx.status)
        sourceGoal == sourceGoalOf(ctx.status)
        maxUnavail == maxUnavailOf(currentBatchOf(ctx.status), targetGoal)
    IN  \/ sourcePodCount # sourceGoal
        \/ maxUnavail + readyTargetPodCount + sourcePodCount
               < ctx.status.RolloutTargetSize

\* a slip: a successful check also moves to the next batch
recordBatchAvailable_advance(status, readyTargetPodCount) ==
    [status EXCEPT
        !.UpgradedReadyReplicas = readyTargetPodCount,
        !.LastAppliedPodTemplateIdentifier = status.NewPodTemplateIdentifier,
        !.CurrentBatch = @ + 1]

\* lines 205-211: what a successful check records
recordBatchAvailable(status, readyTargetPodCount) ==
    [status EXCEPT
        !.UpgradedReadyReplicas = readyTargetPodCount,
        !.LastAppliedPodTemplateIdentifier = status.NewPodTemplateIdentifier]

\* a slip: the ready count is recorded before the batch is found ready
CheckOneBatchPodsFrom_records(ctx, f) ==
    LET got == fetchDeployments(ctx, f)
        counted == [got EXCEPT !.status.UpgradedReadyReplicas =
                                   got.target.ReadyReplicas]
    IN  IF f # "ok"
        THEN Result(got, FALSE, "nil")
        ELSE IF batchNotReady(got)
        THEN Result([counted EXCEPT !.status = RolloutRetry(@, "notReady")],
                    FALSE, "nil")
        ELSE Result([got EXCEPT !.status =
                        recordBatchAvailable(@, got.target.ReadyReplicas)],
                    TRUE, "nil")

\* CheckOneBatchPods
CheckOneBatchPodsFrom(ctx, f) ==
    LET got == fetchDeployments(ctx, f)
    IN  IF f # "ok"
        THEN Result(got, FALSE, "nil")
        ELSE IF batchNotReady(got)
        THEN Result([got EXCEPT !.status = RolloutRetry(@, "notReady")], FALSE, "nil")
        ELSE Result([got EXCEPT !.status =
                        recordBatchAvailable(@, got.target.ReadyReplicas)],
                    TRUE, "nil")

CheckOneBatchPodsCall(f) == CheckOneBatchPodsFrom(Context, f)

\* a slip: FinalizeOneBatch asks to be called again through the status
FinalizeOneBatchCall_retry ==
    Result([Context EXCEPT !.status = RolloutRetry(@, "notReady")], FALSE, "nil")

\* FinalizeOneBatch: nothing to do
FinalizeOneBatchCall == Result(Context, FALSE, "nil")

\* a slip: after a failed rollout a release error of the target is let go
FinalizeCall_lenient(succeed, p1, p2) ==
    LET one == releaseDeployment(Context, "source", p1)
        two == releaseDeployment(one, "target", p2)
    IN  IF releaseFailed(Context, "source", p1)
        THEN Result([one EXCEPT !.status = RolloutRetry(@, "patch")], FALSE, "nil")
        ELSE IF releaseFailed(one, "target", p2) /\ succeed
        THEN Result([two EXCEPT !.status = RolloutRetry(@, "patch")], FALSE, "nil")
        ELSE Result(two, TRUE, "nil")

\* Finalize(succeed); p1, p2: the release patch of the source, of the target
\* succeeds; succeed is read by the event message only
FinalizeFrom(ctx, succeed, p1, p2) ==
    LET one == releaseDeployment(ctx, "source", p1)
        two == releaseDeployment(one, "target", p2)
    IN  IF releaseFailed(ctx, "source", p1)
        THEN Result([one EXCEPT !.status = RolloutRetry(@, "patch")], FALSE, "nil")
        ELSE IF releaseFailed(one, "target", p2)
        THEN Result([two EXCEPT !.status = RolloutRetry(@, "patch")], FALSE, "nil")
        ELSE Result(two, TRUE, "nil")

FinalizeCall(succeed, p1, p2) == FinalizeFrom(Context, succeed, p1, p2)

----------------------------------------------------------------------------
(* The initial states: a plan, a fresh status and controller, two settled  *)
(* Deployments                                                             *)

BatchSizes == {IntVal(1), Percent(50)}
Unavailables == {NoValue, IntVal(1), Percent(100)}
Batches == [Replicas : BatchSizes, MaxUnavailable : Unavailables]
BatchLists == UNION {[1..n -> Batches] : n \in 1..MaxBatches}
Strategies == {"", "IncreaseFirst", "DecreaseFirst", "Canary"}
TargetSizes == {Nil, MaxReplicas - 1, MaxReplicas}

\* the replica count the Deployment controller of the cluster works towards
\* (the API's default for an unset count is 1)
desiredPods(deploy) == IF deploy.Replicas = Nil THEN 1 ELSE deploy.Replicas

Settled(replicas, paused, template, owners) ==
    LET d == [Replicas |-> replicas, Paused |-> paused, Template |-> template,
              OwnerReferences |-> owners, StatusReplicas |-> 0, ReadyReplicas |-> 0]
    IN  [d EXCEPT !.StatusReplicas = desiredPods(d), !.ReadyReplicas = desiredPods(d)]

SourceOwners == {<<>>, <<OtherController>>}
TargetOwners == {<<>>, <<OtherOwner>>, <<OtherController>>}
Sources == {Settled(r, FALSE, "v1", o) : r \in {Nil} \cup 1..MaxReplicas, o \in SourceOwners}
Targets == {Settled(r, p, "v2", o) : r \in {Nil, 0, 1}, p \in BOOLEAN, o \in TargetOwners}

\* the usual start of a rollout: a source of MaxReplicas pods, a paused and
\* empty target, nothing rolled out before, two batches of 50% each
UsualSource == Settled(MaxReplicas, FALSE, "v1", <<>>)
UsualTarget == Settled(0, TRUE, "v2", <<>>)
UsualBatches ==
    [i \in 1..2 |-> [Replicas |-> Percent(50), MaxUnavailable |-> NoValue]]

Start(batches, strategy, size, source, target, last) ==
    [plan |-> [RolloutBatches |-> batches, RolloutStrategy |-> strategy,
               TargetSize |-> size],
     source |-> source, target |-> target, last |-> last]

\* every batch list under both strategies, from the usual cluster
PlanStarts ==
    {Start(b, s, Nil, UsualSource, UsualTarget, NoHash) :
        b \in BatchLists, s \in {"IncreaseFirst", "DecreaseFirst"}}
\* every strategy and declared size, for the usual batches and cluster
StrategyStarts ==
    {Start(UsualBatches, s, n, UsualSource, UsualTarget, NoHash) :
        s \in Strategies, n \in TargetSizes}
\* every cluster, with and without the target's hash already applied
ClusterStarts ==
    UNION {{Start(UsualBatches, "IncreaseFirst", Nil, src, tgt, last) :
               last \in {NoHash, ComputeSpecHash(tgt)}} :
           src \in Sources, tgt \in Targets}
\* a one-batch rollout onto a target that someone else owns without
\* controlling it
OwnedStarts ==
    {Start(<<[Replicas |-> Percent(50), MaxUnavailable |-> NoValue]>>,
           "IncreaseFirst", Nil, UsualSource,
           Settled(0, TRUE, "v2", <<OtherOwner>>), NoHash)}
Starts == PlanStarts \cup StrategyStarts \cup ClusterStarts \cup OwnedStarts

InitFrom(starts) ==
    /\ \E s \in starts :
          /\ rolloutSpec = s.plan
          /\ cluster = [source |-> s.source, target |-> s.target]
          /\ rolloutStatus =
                [CurrentBatch |-> 0, RolloutTargetSize |-> 0,
                 NewPodTemplateIdentifier |-> NoHash,
                 LastAppliedPodTemplateIdentifier |-> s.last,
                 UpgradedReplicas |-> 0, UpgradedReadyReplicas |-> 0,
                 RetryReason |-> ""]
    /\ sourceDeploy = ZeroDeployment
    /\ targetDeploy = ZeroDeployment
    /\ ret = NoCall
    /\ patches = <<>>
    /\ phase = "verify"
    /\ submitted = FALSE

Init == InitFrom(Starts)

\* Scenarios A and B of the specification: a source of 10 pods, an empty
\* paused target, two batches of 50%, under either strategy; the tolerance
\* of the batches is none or 100%
ScenarioBatches(unavailable) ==
    [i \in 1..2 |-> [Replicas |-> Percent(50), MaxUnavailable |-> unavailable]]
ScenarioStarts ==
    {Start(ScenarioBatches(m), s, Nil, Settled(10, FALSE, "v1", <<>>),
           UsualTarget, NoHash) :
        m \in {NoValue, Percent(100)}, s \in {"IncreaseFirst", "DecreaseFirst"}}
ScenarioInit == InitFrom(ScenarioStarts)

----------------------------------------------------------------------------
(* The calls of the driver.  A call is one step: it leaves the context of  *)
(* the phase in the variables and its result in ret.                       *)

Fetches == {"ok", "source", "target"}

\* What a copy of the controller holds between two calls.  Every phase but
\* Finalize overwrites its copies by a fetch before it reads them (or returns
\* when the fetch fails), and Finalize reads and patches the owner references
\* only: the other fields of a copy are never read again, and are left out.
Kept(copy) == [ZeroDeployment EXCEPT !.OwnerReferences = copy.OwnerReferences]

Returns(op, r, f, hashErr) ==
    /\ cluster' = r.ctx.cluster
    /\ sourceDeploy' = Kept(r.ctx.source)
    /\ targetDeploy' = Kept(r.ctx.target)
    /\ rolloutStatus' = r.ctx.status
    /\ patches' = r.ctx.patches
    /\ ret' = [op |-> op, done |-> r.done, err |-> r.err, fetchErr |-> f # "ok",
               hashErr |-> hashErr]
    /\ UNCHANGED rolloutSpec

\* a claim adds an owner reference: the lists are kept within MaxOwnerRefs
RoomToClaim ==
    /\ Len(cluster.source.OwnerReferences) < MaxOwnerRefs
    /\ Len(cluster.target.OwnerReferences) < MaxOwnerRefs

VerifySpec ==
    /\ phase = "verify"
    /\ \E f \in Fetches, hashErr \in BOOLEAN :
          LET r == VerifySpecCall(f, hashErr)
          IN  /\ Returns("VerifySpec", r, f, f = "ok" /\ hashErr)
              /\ phase' = IF r.err # "nil" THEN "failed"
                          ELSE IF r.done THEN "init" ELSE "verify"
              /\ UNCHANGED submitted

Initialize ==
    /\ phase = "init"
    /\ RoomToClaim
    /\ \E f \in Fetches, p1 \in BOOLEAN, p2 \in BOOLEAN :
          LET r == InitializeCall(f, p1, p2)
          IN  /\ Returns("Initialize", r, f, FALSE)
              /\ phase' = IF r.done THEN "batch" ELSE "init"
              /\ UNCHANGED submitted

RolloutOneBatchPods ==
    /\ phase = "batch"
    /\ \E f \in Fetches, ok \in BOOLEAN :
          LET r == RolloutOneBatchPodsCall(f, ok)
          IN  /\ Returns("RolloutOneBatchPods", r, f, FALSE)
              /\ phase' = IF r.err = "fatal" THEN "failed" ELSE "batch"
              /\ submitted' = (submitted \/ r.done)

CheckOneBatchPods ==
    /\ phase = "batch"
    /\ \E f \in Fetches :
          LET r == CheckOneBatchPodsCall(f)
          IN  /\ Returns("CheckOneBatchPods", r, f, FALSE)
              /\ phase' = IF r.done THEN "delivered" ELSE "batch"
              /\ UNCHANGED submitted

FinalizeOneBatch ==
    /\ phase = "delivered"
    /\ Returns("FinalizeOneBatch", FinalizeOneBatchCall, "ok", FALSE)
    /\ phase' = "delivered"
    /\ UNCHANGED submitted

\* the driver moves to the next batch, or to the end of the rollout
AdvanceBatch ==
    /\ phase = "delivered"
    /\ \/ /\ rolloutStatus.CurrentBatch + 1 < Len(rolloutSpec.RolloutBatches)
          /\ rolloutStatus' = [rolloutStatus EXCEPT !.CurrentBatch = @ + 1]
          /\ phase' = "batch"
          /\ submitted' = FALSE
       \/ /\ rolloutStatus.CurrentBatch + 1 = Len(rolloutSpec.RolloutBatches)
          /\ rolloutStatus' = rolloutStatus
          /\ phase' = "finalize"
          /\ UNCHANGED submitted
    /\ ret' = NoCall
    /\ patches' = <<>>
    /\ UNCHANGED <<rolloutSpec, cluster, sourceDeploy, targetDeploy>>

\* the driver calls Finalize at the end of the rollout or after a fatal
\* error, again until it returns true, and possibly once more after that
Finalize ==
    /\ phase \in {"finalize", "failed", "done"}
    /\ \E succeed \in BOOLEAN, p1 \in BOOLEAN, p2 \in BOOLEAN :
          LET r == FinalizeCall(succeed, p1, p2)
          IN  /\ Returns("Finalize", r, "ok", FALSE)
              /\ phase' = IF r.done THEN "done" ELSE phase
              /\ UNCHANGED submitted

\* the process restarts: the driver constructs a new controller around the
\* same plan and status, its two copies zero-valued
Restart ==
    /\ sourceDeploy' = ZeroDeployment
    /\ targetDeploy' = ZeroDeployment
    /\ ret' = NoCall
    /\ patches' = <<>>
    /\ UNCHANGED <<rolloutSpec, rolloutStatus, cluster, phase, submitted>>

----------------------------------------------------------------------------
(* The pods of the cluster *)

PodsStep(which, field, n) ==
    /\ cluster' = [cluster EXCEPT ![which][field] = n]
    /\ ret' = NoCall
    /\ patches' = <<>>
    /\ UNCHANGED <<rolloutSpec, rolloutStatus, sourceDeploy, targetDeploy, phase,
                   submitted>>

\* the source's pods follow its desired replica count, one at a time
SourcePodsFollow ==
    LET have == cluster.source.StatusReplicas
        want == desiredPods(cluster.source)
    IN  /\ have # want
        /\ PodsStep("source", "StatusReplicas",
                    IF have < want THEN have + 1 ELSE have - 1)

\* a pod of the target becomes ready
TargetPodReady ==
    /\ cluster.target.ReadyReplicas < desiredPods(cluster.target)
    /\ PodsStep("target", "ReadyReplicas", cluster.target.ReadyReplicas + 1)

\* a ready pod of the target stops being ready
TargetPodFails ==
    /\ cluster.target.ReadyReplicas > 0
    /\ PodsStep("target", "ReadyReplicas", cluster.target.ReadyReplicas - 1)

Next ==
    \/ VerifySpec
    \/ Initialize
    \/ RolloutOneBatchPods
    \/ CheckOneBatchPods
    \/ FinalizeOneBatch
    \/ AdvanceBatch
    \/ Finalize
    \/ Restart
    \/ SourcePodsFollow
    \/ TargetPodReady
    \/ TargetPodFails

Spec == Init /\ [][Next]_vars

\* the rollouts of scenarios A and B
ScenarioSpec == ScenarioInit /\ [][Next]_vars

----------------------------------------------------------------------------
(* A cluster in which another client scales the Deployments *)

\* another client of the API server sets the desired replica count of the
\* target while its batches are rolled out
Scaled ==
    /\ phase = "batch"
    /\ \E n \in 0..MaxReplicas :
          /\ cluster.target.Replicas # n
          /\ cluster' = [cluster EXCEPT !.target.Replicas = n]
    /\ ret' = NoCall
    /\ patches' = <<>>
    /\ UNCHANGED <<rolloutSpec, rolloutStatus, sourceDeploy, targetDeploy, phase,
                   submitted>>

ScaledNext ==
    \/ Next
    \/ Scaled

\* every strategy, from the usual cluster, with the Deployments scaled by
\* others at any time
ScaledSpec == InitFrom(StrategyStarts) /\ [][ScaledNext]_vars

----------------------------------------------------------------------------
(* A rollout in which nothing fails: every Get and Patch succeeds, the     *)
(* hash is computed, no pod stops being ready, the process does not        *)
(* restart; the driver calls each phase again and again, and the pods of   *)
(* the desired count come up                                               *)

\* the call that returns in the next state met no failed Get, hash or Patch
Unfailing ==
    /\ ~ret'.fetchErr
    /\ ~ret'.hashErr
    /\ \A i \in 1..Len(patches') : patches'[i].ok

LiveVerifySpec == VerifySpec /\ Unfailing
LiveInitialize == Initialize /\ Unfailing
LiveRolloutOneBatchPods == RolloutOneBatchPods /\ Unfailing
LiveCheckOneBatchPods == CheckOneBatchPods /\ Unfailing
LiveFinalize == Finalize /\ Unfailing

LiveNext ==
    \/ LiveVerifySpec
    \/ LiveInitialize
    \/ LiveRolloutOneBatchPods
    \/ LiveCheckOneBatchPods
    \/ FinalizeOneBatch
    \/ AdvanceBatch
    \/ LiveFinalize
    \/ SourcePodsFollow
    \/ TargetPodReady

Fairness ==
    /\ WF_vars(LiveVerifySpec)
    /\ WF_vars(LiveInitialize)
    /\ WF_vars(LiveRolloutOneBatchPods)
    /\ WF_vars(LiveCheckOneBatchPods)
    /\ WF_vars(AdvanceBatch)
    /\ WF_vars(LiveFinalize)
    /\ WF_vars(SourcePodsFollow)
    /\ WF_vars(TargetPodReady)

\* every batch list under both strategies, from the usual cluster
LiveSpec == InitFrom(PlanStarts) /\ [][LiveNext]_vars /\ Fairness

----------------------------------------------------------------------------
(* Properties *)

Batch == rolloutStatus.CurrentBatch
LastBatch == Len(rolloutSpec.RolloutBatches) - 1
Total == rolloutStatus.RolloutTargetSize
Returned(op) == ret.op = op

\* CheckOneBatchPods has just reported the current batch done, after
\* RolloutOneBatchPods had reported its patches submitted
BatchDelivered ==
    /\ Returned("CheckOneBatchPods")
    /\ ret.done
    /\ submitted

\* the goals of batch i as section 4.1 of the specification names them
targetGoal(total, i) == calculateCurrentTarget(rolloutSpec.RolloutBatches, i, total)
sourceGoal(total, i) == calculateCurrentSource(rolloutSpec.RolloutBatches, i, total)

\* C1 (as claimed): whenever CheckOneBatchPods returns done=true for the
\* current batch, the desired replicas of source and target add up to
\* rolloutTargetSize.
C1_Conservation ==
    BatchDelivered =>
        cluster.source.Replicas + cluster.target.Replicas = Total

\* C2 (as claimed): whenever CheckOneBatchPods returns done=true for the last
\* batch, the target's desired replicas are rolloutTargetSize and the
\* source's are 0.
C2_EndState ==
    (BatchDelivered /\ Batch = LastBatch) =>
        /\ cluster.target.Replicas = Total
        /\ cluster.source.Replicas = 0

\* C3 (as claimed): for a plan VerifySpec has accepted and every batch index
\* i, sourceGoal(total, i) + targetGoal(total, i) = total.
C3_GoalsAddUp ==
    (Returned("VerifySpec") /\ ret.done) =>
        \A i \in 0..LastBatch : sourceGoal(Total, i) + targetGoal(Total, i) = Total

FirstPatch == patches[1]
RolledBatchZero(strategy) ==
    /\ rolloutSpec.RolloutStrategy = strategy
    /\ Returned("RolloutOneBatchPods")
    /\ Batch = 0
    /\ patches # <<>>
    /\ FirstPatch.ok

\* C4 (as claimed), scenario A: under IncreaseFirst, from source=10, target=0,
\* batches [50%, 50%], batch 0: the RolloutOneBatchPods call that patches the
\* target sets it to 5 with the source still at 10; the later call that
\* patches the source sets it to 5, so that source + target = 10; and
\* CheckOneBatchPods returns done=true when the source has 5 pods and
\* readyTarget + maxUnavailable + source >= 10.
C4_ScenarioA ==
    /\ (RolledBatchZero("IncreaseFirst") /\ FirstPatch.deploy = "target") =>
          /\ FirstPatch.value = 5
          /\ cluster.source.Replicas = 10
    /\ (RolledBatchZero("IncreaseFirst") /\ FirstPatch.deploy = "source") =>
          /\ FirstPatch.value = 5
          /\ cluster.source.Replicas + cluster.target.Replicas = 10
    /\ ( /\ rolloutSpec.RolloutStrategy = "IncreaseFirst"
         /\ Returned("CheckOneBatchPods") /\ ~ret.fetchErr /\ Batch = 0
         /\ cluster.source.StatusReplicas = 5
         /\ cluster.target.ReadyReplicas
              + maxUnavailOf(rolloutSpec.RolloutBatches[1], 5) + 5 >= 10 )
       => ret.done

\* C5 (as claimed), scenario B: under DecreaseFirst, from the same start, the
\* RolloutOneBatchPods call that patches the source sets it to 5 (the sum
\* is 5); the later call that patches the target sets it to 5 (the sum is 10).
C5_ScenarioB ==
    /\ (RolledBatchZero("DecreaseFirst") /\ FirstPatch.deploy = "source") =>
          /\ FirstPatch.value = 5
          /\ cluster.source.Replicas + cluster.target.Replicas = 5
    /\ (RolledBatchZero("DecreaseFirst") /\ FirstPatch.deploy = "target") =>
          /\ FirstPatch.value = 5
          /\ cluster.source.Replicas + cluster.target.Replicas = 10

\* C6 (as claimed): RolloutOneBatchPods never returns done=true.
C6_NeverDone == ~(Returned("RolloutOneBatchPods") /\ ret.done)

\* C6 (amended): RolloutOneBatchPods never returns done=true from the first
\* half (source.replicas + target.replicas = rolloutTargetSize on entry); it
\* returns done=true only from the second half, with no failed patch, and
\* then records upgradedReplicas = targetGoal of the batch.
C6_DoneOnlyFromSecondHalf ==
    [][ (ret'.op = "RolloutOneBatchPods" /\ ret'.done) =>
           /\ cluster.source.Replicas + cluster.target.Replicas
                 # rolloutStatus.RolloutTargetSize
           /\ \A i \in 1..Len(patches') : patches'[i].ok
           /\ rolloutStatus'.UpgradedReplicas
                 = targetGoal(rolloutStatus.RolloutTargetSize,
                              rolloutStatus.CurrentBatch) ]_vars

C6_Witness ==
    /\ Returned("RolloutOneBatchPods")
    /\ ret.done
    /\ patches # <<>>

\* the tolerance of the current batch, resolved against its target goal
Tolerance ==
    LET unavailable == rolloutSpec.RolloutBatches[Batch + 1].MaxUnavailable
        goal == targetGoal(Total, Batch)
    IN  IF unavailable.Type = "Nil" THEN 0
        ELSE IF unavailable.Type = "Int" THEN unavailable.Val
        ELSE (unavailable.Val * goal + 99) \div 100

\* C7: when both workloads are fetched, CheckOneBatchPods returns done=true
\* if and only if the source has sourceGoal pods (its observed replica count)
\* and maxUnavailable + target.readyReplicas + source pods >= rolloutTargetSize,
\* maxUnavailable being the batch's tolerance resolved against targetGoal; on
\* done=true upgradedReadyReplicas is target.readyReplicas.
C7_CheckDecision ==
    (Returned("CheckOneBatchPods") /\ ~ret.fetchErr) =>
        /\ ret.done <=>
              /\ cluster.source.StatusReplicas = sourceGoal(Total, Batch)
              /\ Tolerance + cluster.target.ReadyReplicas
                    + cluster.source.StatusReplicas >= Total
        /\ ret.done =>
              rolloutStatus.UpgradedReadyReplicas = cluster.target.ReadyReplicas

\* a check that succeeds only thanks to the tolerance
C7_Witness ==
    /\ Returned("CheckOneBatchPods")
    /\ ret.done
    /\ Tolerance > 0
    /\ cluster.target.ReadyReplicas + cluster.source.StatusReplicas < Total
    /\ rolloutStatus.UpgradedReadyReplicas = cluster.target.ReadyReplicas

\* C8 (as claimed): CheckOneBatchPods returns done=true for batch i only when
\* target.readyReplicas + maxUnavailable(batch i) >= targetGoal(total, i).
C8_AvailabilityGates ==
    BatchDelivered =>
        cluster.target.ReadyReplicas + Tolerance >= targetGoal(Total, Batch)

\* the batches before the last leave pods for the last one
LastBatchNotEmpty ==
    SumOfBatchSizes(rolloutSpec.RolloutBatches, LastBatch, Total) < Total

\* C9 (as claimed): lastAppliedPodTemplateIdentifier changes only in a
\* CheckOneBatchPods call that returns done=true for the final batch, which
\* sets it to newPodTemplateIdentifier (stated for the plans whose last
\* batch is not empty).
C9_OnlyFinalBatch ==
    [][ ( /\ LastBatchNotEmpty
          /\ rolloutStatus'.LastAppliedPodTemplateIdentifier
                # rolloutStatus.LastAppliedPodTemplateIdentifier )
        => /\ ret'.op = "CheckOneBatchPods"
           /\ ret'.done
           /\ rolloutStatus.CurrentBatch = LastBatch
           /\ rolloutStatus'.LastAppliedPodTemplateIdentifier
                 = rolloutStatus.NewPodTemplateIdentifier ]_vars

\* C10: a VerifySpec call that fetches both workloads and computes a hash of
\* the target equal to lastAppliedPodTemplateIdentifier returns a non-nil
\* error, not ready, and leaves newPodTemplateIdentifier as it was.
C10_NoOpGuard ==
    [][ ( /\ ret'.op = "VerifySpec"
          /\ ~ret'.fetchErr
          /\ ~ret'.hashErr
          /\ ComputeSpecHash(cluster.target)
                = rolloutStatus.LastAppliedPodTemplateIdentifier )
        => /\ ret'.err = "fatal"
           /\ ~ret'.done
           /\ rolloutStatus'.NewPodTemplateIdentifier
                 = rolloutStatus.NewPodTemplateIdentifier ]_vars

C10_Witness ==
    /\ Returned("VerifySpec")
    /\ ~ret.fetchErr
    /\ ~ret.hashErr
    /\ ComputeSpecHash(cluster.target) = rolloutStatus.LastAppliedPodTemplateIdentifier
    /\ ret.err = "fatal"
    /\ rolloutStatus.NewPodTemplateIdentifier = NoHash

\* a call of the controller has just returned in the next state
Called == ret'.op # "none"

\* C11 (as claimed): rolloutTargetSize and newPodTemplateIdentifier change
\* only in a VerifySpec call that returns ready=true; a VerifySpec call that
\* returns ready=false and every call of the other phases leave both as they
\* were.
C11_WrittenOnlyWhenVerified ==
    [][ ( \/ rolloutStatus'.RolloutTargetSize # rolloutStatus.RolloutTargetSize
          \/ rolloutStatus'.NewPodTemplateIdentifier
                # rolloutStatus.NewPodTemplateIdentifier )
        => /\ ret'.op = "VerifySpec"
           /\ ret'.done ]_vars

\* C12: no call of VerifySpec, Initialize, RolloutOneBatchPods,
\* CheckOneBatchPods, FinalizeOneBatch or Finalize changes
\* rolloutStatus.currentBatch.
C12_CurrentBatchUntouched ==
    [][ Called => rolloutStatus'.CurrentBatch = rolloutStatus.CurrentBatch ]_vars

\* a call that recorded the second batch available, the batch index still 1
C12_Witness ==
    /\ Returned("CheckOneBatchPods")
    /\ ret.done
    /\ Batch = 1

\* the cluster object carries an owner reference marked as its controller
Controlled(w) ==
    \E ref \in {cluster[w].OwnerReferences[i] :
                   i \in 1..Len(cluster[w].OwnerReferences)} : ref.Controller

\* VerifySpec has just returned after every check but the target-state
\* check and the owner checks passed
VerifiedUpToTargetState ==
    /\ Returned("VerifySpec")
    /\ ~ret.fetchErr
    /\ ~ret.hashErr
    /\ ComputeSpecHash(cluster.target) # rolloutStatus.LastAppliedPodTemplateIdentifier
    /\ verifyRolloutBatchReplicaValue(rolloutSpec, Total)

\* C13 (as claimed): the target-state check of VerifySpec fails exactly when
\* the target is not paused and its replica count is not zero: with the
\* earlier checks passing and no controlling owner, VerifySpec returns
\* ready=true for a paused target and for an unpaused target of zero
\* replicas, and a fatal error for the other targets.
C13_TargetStateCheck ==
    ( /\ VerifiedUpToTargetState
      /\ ~Controlled("source")
      /\ ~Controlled("target") )
    => IF ~cluster.target.Paused /\ cluster.target.Replicas # 0
       THEN ~ret.done /\ ret.err = "fatal"
       ELSE ret.done /\ ret.err = "nil"

\* C14: when the source or the target has a controlling owner reference at
\* verification, VerifySpec does not return ready=true; with the earlier
\* checks passing it returns a fatal error, and the driver does not go on
\* to Initialize.
C14_ContestedOwnership ==
    ( /\ Returned("VerifySpec")
      /\ Controlled("source") \/ Controlled("target") )
    => /\ ~ret.done
       /\ phase # "init"
       /\ VerifiedUpToTargetState => (ret.err = "fatal" /\ phase = "failed")

\* scenario E: a paused target that another controller owns
C14_Witness ==
    /\ Returned("VerifySpec")
    /\ VerifiedUpToTargetState
    /\ cluster.target.Paused
    /\ Controlled("target")
    /\ ~Controlled("source")
    /\ ret.err = "fatal"

\* C15, scenario C: when the plan declares a targetSize different from the
\* discovered total (both workloads fetched, the target's hash computed),
\* VerifySpec returns a fatal error and issues no patch.
C15_ScenarioC ==
    ( /\ Returned("VerifySpec")
      /\ ~ret.fetchErr
      /\ ~ret.hashErr
      /\ rolloutSpec.TargetSize # Nil
      /\ rolloutSpec.TargetSize
            # calculateTargetSize(cluster.source, cluster.target) )
    => /\ ret.err = "fatal"
       /\ ~ret.done
       /\ patches = <<>>

\* a declared size one below the discovered total, the target's hash new
C15_Witness ==
    /\ Returned("VerifySpec")
    /\ ~ret.fetchErr
    /\ ~ret.hashErr
    /\ rolloutSpec.TargetSize = Total - 1
    /\ rolloutStatus.NewPodTemplateIdentifier = ComputeSpecHash(cluster.target)
    /\ ret.err = "fatal"
    /\ patches = <<>>

Workloads == {"source", "target"}

\* how many owner references of the rollout a Deployment carries
RolloutRefs(deploy) ==
    Cardinality({i \in 1..Len(deploy.OwnerReferences) :
                    deploy.OwnerReferences[i] = RolloutRef})

\* the patches of the call that has just returned all succeeded
AllPatched == \A i \in 1..Len(patches) : patches[i].ok

\* C16: after an Initialize call that returns ready=true both cluster
\* objects carry the rollout's controlling owner reference and neither is
\* paused; an Initialize call that returns ready=false returns a nil error.
C16_Claimed ==
    Returned("Initialize") =>
        IF ret.done
        THEN \A w \in Workloads :
                /\ RolloutRefs(cluster[w]) >= 1
                /\ ~cluster[w].Paused
        ELSE ret.err = "nil"

\* both claim patches went through, the target unpaused by its claim
C16_Witness ==
    /\ Returned("Initialize")
    /\ ret.done
    /\ Len(patches) = 2
    /\ AllPatched
    /\ \A w \in Workloads : RolloutRefs(cluster[w]) = 1 /\ ~cluster[w].Paused

\* C17 (as claimed): after any sequence of Initialize calls, retries after a
\* failed claim of the target included, each workload carries the rollout's
\* owner reference at most once.
C17_ClaimedOnce ==
    \A w \in Workloads : RolloutRefs(cluster[w]) <= 1

\* the controller's copy of a workload
Copy(w) == IF w = "source" THEN sourceDeploy ELSE targetDeploy

\* the patches the call that returns in the next state made to workload w
PatchesOf(w) == {i \in 1..Len(patches') : patches'[i].deploy = w}

\* C18: a release of a workload that carries no owner reference of the
\* rollout's kind succeeds without a patch and leaves the cluster object as
\* it is; after a release that went through, releasing the workload again
\* issues no patch and yields the same owner references.
C18_ReleaseIdempotent ==
    [][ ret'.op = "Finalize" =>
          \A w \in Workloads :
             LET again == releaseDeployment(Context', w, TRUE)
             IN  /\ ~releaseFound(Copy(w)) =>
                       /\ PatchesOf(w) = {}
                       /\ cluster'[w] = cluster[w]
                 /\ (\A v \in Workloads : ~releaseFound(Copy(v))) => ret'.done
                 /\ ret'.done =>
                       /\ again.patches = <<>>
                       /\ again.cluster[w].OwnerReferences
                             = cluster'[w].OwnerReferences
                       /\ ~releaseFailed(Context', w, FALSE) ]_vars

\* Finalize called once more after the Finalize that released both claimed
\* workloads: it returns true without a patch
C18_Witness ==
    /\ Returned("Finalize")
    /\ ret.done
    /\ patches = <<>>
    /\ submitted
    /\ \A w \in Workloads : RolloutRefs(cluster[w]) = 0

\* C19 (as claimed): whenever Finalize returns true, neither cluster object
\* carries an owner reference of the rollout.
C19_ReleasedWhenFinalized ==
    (Returned("Finalize") /\ ret.done) =>
        \A w \in Workloads : RolloutRefs(cluster[w]) = 0

\* C20: Finalize returns false, with a retry reason recorded in the status,
\* whenever a release patch of the source or of the target fails; what it
\* returns and what it leaves do not depend on the succeed argument.
C20_FinalizeRetries ==
    [][ ret'.op = "Finalize" =>
          /\ ~(\A i \in 1..Len(patches') : patches'[i].ok) =>
                /\ ~ret'.done
                /\ rolloutStatus'.RetryReason = "patch"
          /\ \A p1 \in BOOLEAN, p2 \in BOOLEAN :
                FinalizeCall(TRUE, p1, p2) = FinalizeCall(FALSE, p1, p2) ]_vars

\* the source released, the release patch of the target failed
C20_Witness ==
    /\ Returned("Finalize")
    /\ ~ret.done
    /\ Len(patches) = 2
    /\ patches[1].ok
    /\ ~patches[2].ok
    /\ rolloutStatus.RetryReason = "patch"

\* a freshly constructed controller in the same cluster, with the same plan
\* and status
Fresh ==
    [Context EXCEPT !.source = ZeroDeployment, !.target = ZeroDeployment]

\* what a call returns and the patches it makes
Outcome(r) == <<r.done, r.err, r.ctx.patches>>

\* C21 (as claimed): a call of VerifySpec, Initialize, RolloutOneBatchPods,
\* CheckOneBatchPods or Finalize returns the same result and makes the same
\* patches as the same call on a freshly constructed controller would in the
\* same cluster state, plan and status: nothing depends on the calls made
\* before on the controller instance.
C21_DecidesFromSnapshots ==
    [][ /\ ret'.op = "VerifySpec" =>
             \A f \in Fetches, h \in BOOLEAN :
                Outcome(VerifySpecFrom(Context, f, h))
                   = Outcome(VerifySpecFrom(Fresh, f, h))
        /\ ret'.op = "Initialize" =>
             \A f \in Fetches, p1 \in BOOLEAN, p2 \in BOOLEAN :
                Outcome(InitializeFrom(Context, f, p1, p2))
                   = Outcome(InitializeFrom(Fresh, f, p1, p2))
        /\ ret'.op = "RolloutOneBatchPods" =>
             \A f \in Fetches, ok \in BOOLEAN :
                Outcome(RolloutOneBatchPodsFrom(Context, f, ok))
                   = Outcome(RolloutOneBatchPodsFrom(Fresh, f, ok))
        /\ ret'.op = "CheckOneBatchPods" =>
             \A f \in Fetches :
                Outcome(CheckOneBatchPodsFrom(Context, f))
                   = Outcome(CheckOneBatchPodsFrom(Fresh, f))
        /\ ret'.op = "Finalize" =>
             \A succeed \in BOOLEAN, p1 \in BOOLEAN, p2 \in BOOLEAN :
                Outcome(FinalizeFrom(Context, succeed, p1, p2))
                   = Outcome(FinalizeFrom(Fresh, succeed, p1, p2)) ]_vars

\* C22 (as claimed): when a Get of the source or of the target fails, each
\* of VerifySpec, Initialize, RolloutOneBatchPods and CheckOneBatchPods
\* returns (false, nil), records the retry reason in the status and makes no
\* patch.
C22_FetchFailureRetries ==
    [][ ( /\ ret'.op \in {"VerifySpec", "Initialize", "RolloutOneBatchPods",
                          "CheckOneBatchPods"}
          /\ ret'.fetchErr )
        => /\ ~ret'.done
           /\ ret'.err = "nil"
           /\ patches' = <<>>
           /\ rolloutStatus'.RetryReason = "fetch" ]_vars

\* C23: when a replica patch fails, in the first half or in the second,
\* RolloutOneBatchPods returns (false, nil), the retry reason recorded, and
\* leaves upgradedReplicas as it was.
C23_PatchFailureRetries ==
    [][ ( /\ ret'.op = "RolloutOneBatchPods"
          /\ \E i \in 1..Len(patches') : ~patches'[i].ok )
        => /\ ~ret'.done
           /\ ret'.err = "nil"
           /\ rolloutStatus'.RetryReason = "patch"
           /\ rolloutStatus'.UpgradedReplicas = rolloutStatus.UpgradedReplicas ]_vars

\* the desired replica counts in the cluster add up to the rollout's size
AtRolloutSize == cluster.source.Replicas + cluster.target.Replicas = Total

\* a failed patch of the second half
C23_Witness ==
    /\ Returned("RolloutOneBatchPods")
    /\ ~AtRolloutSize
    /\ Len(patches) = 1
    /\ ~patches[1].ok
    /\ ~ret.done
    /\ rolloutStatus.RetryReason = "patch"

\* the plan names a strategy that is neither IncreaseFirst nor DecreaseFirst
UnknownStrategy ==
    rolloutSpec.RolloutStrategy \notin {"", "IncreaseFirst", "DecreaseFirst"}

\* C24 (as claimed): with an unknown strategy, every RolloutOneBatchPods call
\* whose fetch succeeds returns a non-nil error and makes no patch, whether
\* source.replicas + target.replicas equals rolloutTargetSize or not.
C24_UnknownStrategyFatal ==
    ( /\ Returned("RolloutOneBatchPods")
      /\ ~ret.fetchErr
      /\ UnknownStrategy )
    => /\ ret.err = "fatal"
       /\ patches = <<>>

\* C25 (as claimed): for a plan VerifySpec has accepted and every batch index
\* i before the last, targetGoal(total, i) <= targetGoal(total, i+1) and
\* sourceGoal(total, i) >= sourceGoal(total, i+1).
C25_MonotonicGoals ==
    (Returned("VerifySpec") /\ ret.done) =>
        \A i \in 0..(LastBatch - 1) :
            /\ targetGoal(Total, i) <= targetGoal(Total, i + 1)
            /\ sourceGoal(Total, i) >= sourceGoal(Total, i + 1)

\* the sizes of all the batches of the plan, resolved against total
SizesOfAllBatches(total) ==
    SumOfBatchSizes(rolloutSpec.RolloutBatches, Len(rolloutSpec.RolloutBatches),
                    total)

\* C26: for every total and the batch list of every plan,
\* targetGoal(total, lastIndex) = total, whatever the sizes of the batches
\* add up to.
C26_LastBatchExact ==
    \A total \in 0..(MaxReplicas + 1) : targetGoal(total, LastBatch) = total

\* the last batch patches the target to the rollout's size although the
\* sizes of the batches do not add up to it
C26_Witness ==
    /\ Returned("RolloutOneBatchPods")
    /\ Batch = LastBatch
    /\ SizesOfAllBatches(Total) # Total
    /\ Len(patches) = 1
    /\ patches[1].deploy = "target"
    /\ patches[1].ok
    /\ patches[1].value = Total
    /\ cluster.target.Replicas = Total

\* VerifySpec has accepted a plan of several batches
AcceptedMultiBatch == phase = "init" /\ LastBatch >= 1

\* C27 (as claimed): when nothing fails and the driver and the pods are
\* scheduled fairly, every batch of an accepted plan of several batches is
\* eventually reported done by CheckOneBatchPods, and the rollout
\* eventually reaches Finalize.
C27_Liveness ==
    /\ \A i \in 0..(MaxBatches - 1) :
          (AcceptedMultiBatch /\ i <= LastBatch)
             ~> (Returned("CheckOneBatchPods") /\ ret.done /\ Batch = i)
    /\ AcceptedMultiBatch ~> (phase \in {"finalize", "done"})

IncreaseFirst == rolloutSpec.RolloutStrategy \in {"", "IncreaseFirst"}
DecreaseFirst == rolloutSpec.RolloutStrategy = "DecreaseFirst"

\* the call that returns in the next state is a RolloutOneBatchPods that
\* fetched both workloads and found their replica counts set
Rolled ==
    /\ ret'.op = "RolloutOneBatchPods"
    /\ ~ret'.fetchErr
    /\ ret'.err # "panic"

\* the call that returns in the next state made the one patch that sets the
\* desired replicas of workload w to n, and left the other workload alone
OnePatch(w, n) ==
    /\ Len(patches') = 1
    /\ patches'[1].deploy = w
    /\ patches'[1].field = "replicas"
    /\ patches'[1].value = n
    /\ \A v \in Workloads \ {w} : cluster'[v] = cluster[v]

\* the call that returns in the next state made no patch, recorded why it
\* retries and returned (false, nil)
NotReadyRetry ==
    /\ patches' = <<>>
    /\ cluster' = cluster
    /\ ~ret'.done
    /\ ret'.err = "nil"
    /\ rolloutStatus'.RetryReason = "notReady"

\* target.readyReplicas + maxUnavailable >= targetGoal
ReadyCapacity ==
    cluster.target.ReadyReplicas + Tolerance >= targetGoal(Total, Batch)

\* C28: under IncreaseFirst, when source.replicas + target.replicas differs
\* from rolloutTargetSize, RolloutOneBatchPods patches the source to
\* sourceGoal if target.readyReplicas + maxUnavailable >= targetGoal, and
\* else makes no patch, records a retry reason and returns (false, nil); no
\* step reduces the source's desired replicas when the target lacks that
\* ready capacity.
C28_IncreaseFirstSecondHalf ==
    [][ IncreaseFirst =>
          /\ (Rolled /\ ~AtRolloutSize) =>
                IF ReadyCapacity
                THEN OnePatch("source", sourceGoal(Total, Batch))
                ELSE NotReadyRetry
          /\ cluster'.source.Replicas < cluster.source.Replicas => ReadyCapacity
      ]_vars

\* the source shrunk to its goal because the pods of the target are ready
C28_Witness ==
    /\ IncreaseFirst
    /\ Returned("RolloutOneBatchPods")
    /\ ret.done
    /\ patches[1].deploy = "source"
    /\ cluster.source.Replicas = sourceGoal(Total, Batch)
    /\ cluster.source.Replicas < cluster.source.StatusReplicas
    /\ Tolerance = 0
    /\ cluster.target.ReadyReplicas >= targetGoal(Total, Batch)

\* C29: under DecreaseFirst, when source.replicas + target.replicas differs
\* from rolloutTargetSize, RolloutOneBatchPods patches the target to
\* targetGoal if the source has sourceGoal pods (its observed replica
\* count), no pod having to be ready, and else makes no patch, records a
\* retry reason and returns (false, nil).
C29_DecreaseFirstSecondHalf ==
    [][ (DecreaseFirst /\ Rolled /\ ~AtRolloutSize) =>
           IF cluster.source.StatusReplicas = sourceGoal(Total, Batch)
           THEN OnePatch("target", targetGoal(Total, Batch))
           ELSE NotReadyRetry ]_vars

\* the target raised to its goal with no pod of it ready
C29_Witness ==
    /\ DecreaseFirst
    /\ Returned("RolloutOneBatchPods")
    /\ ret.done
    /\ patches[1].deploy = "target"
    /\ cluster.target.Replicas = targetGoal(Total, Batch)
    /\ cluster.target.ReadyReplicas = 0
    /\ cluster.source.StatusReplicas = sourceGoal(Total, Batch)

\* C30: a RolloutOneBatchPods call made when source.replicas +
\* target.replicas = rolloutTargetSize returns done=false and leaves
\* upgradedReplicas as it was; under IncreaseFirst (or no strategy) it
\* patches the target only, to targetGoal; under DecreaseFirst it patches
\* the source only, to sourceGoal.
C30_FirstHalf ==
    [][ (Rolled /\ AtRolloutSize) =>
           /\ ~ret'.done
           /\ rolloutStatus'.UpgradedReplicas = rolloutStatus.UpgradedReplicas
           /\ IncreaseFirst => OnePatch("target", targetGoal(Total, Batch))
           /\ DecreaseFirst => OnePatch("source", sourceGoal(Total, Batch)) ]_vars

\* the first half of a batch under DecreaseFirst: the source shrunk, the
\* target as it was
C30_Witness ==
    /\ DecreaseFirst
    /\ Returned("RolloutOneBatchPods")
    /\ ~ret.done
    /\ Len(patches) = 1
    /\ patches[1].deploy = "source"
    /\ patches[1].ok
    /\ cluster.source.Replicas = sourceGoal(Total, Batch)
    /\ cluster.source.Replicas + cluster.target.Replicas < Total

\* C31: CheckOneBatchPods never returns a non-nil error; when both
\* workloads are fetched and the batch is not ready it returns (false, nil)
\* and records a retry reason; whenever it returns false it leaves
\* lastAppliedPodTemplateIdentifier and upgradedReadyReplicas as they were.
C31_CheckNeverFails ==
    [][ ret'.op = "CheckOneBatchPods" =>
          /\ ret'.err = "nil"
          /\ (~ret'.done /\ ~ret'.fetchErr) =>
                rolloutStatus'.RetryReason = "notReady"
          /\ ~ret'.done =>
                /\ rolloutStatus'.LastAppliedPodTemplateIdentifier
                      = rolloutStatus.LastAppliedPodTemplateIdentifier
                /\ rolloutStatus'.UpgradedReadyReplicas
                      = rolloutStatus.UpgradedReadyReplicas ]_vars

\* a check that finds the batch not ready while the target has ready pods
\* that no check has recorded
C31_Witness ==
    /\ Returned("CheckOneBatchPods")
    /\ ~ret.fetchErr
    /\ ~ret.done
    /\ rolloutStatus.RetryReason = "notReady"
    /\ cluster.target.ReadyReplicas > rolloutStatus.UpgradedReadyReplicas
    /\ rolloutStatus.LastAppliedPodTemplateIdentifier
          # rolloutStatus.NewPodTemplateIdentifier

\* the desired replica counts of both workloads are set
ReplicasSet == cluster.source.Replicas # Nil /\ cluster.target.Replicas # Nil

\* RolloutOneBatchPods has just returned from the first half with its patch
\* applied
FirstHalfPatched ==
    /\ Returned("RolloutOneBatchPods")
    /\ ~ret.done
    /\ Len(patches) = 1
    /\ patches[1].ok

\* C32 (as claimed): after a RolloutOneBatchPods call whose first-half patch
\* succeeded, the next RolloutOneBatchPods call for the same batch that
\* fetches both workloads takes the second half: it finds
\* source.replicas + target.replicas different from rolloutTargetSize.
C32_SecondHalfFollows ==
    [][ ( /\ FirstHalfPatched
          /\ ret'.op = "RolloutOneBatchPods"
          /\ ~ret'.fetchErr )
        => ~AtRolloutSize ]_vars

\* a rollout is under way: VerifySpec and Initialize have returned ready
UnderWay == phase \in {"batch", "delivered", "finalize", "done"}

\* C33 (as claimed): under IncreaseFirst, in every state after a successful
\* VerifySpec and Initialize, source desired replicas + target desired
\* replicas >= rolloutTargetSize.
C33_NeverShortfall ==
    (IncreaseFirst /\ UnderWay /\ ReplicasSet) =>
        cluster.source.Replicas + cluster.target.Replicas >= Total

ReplicaPatches == {i \in 1..Len(patches) : patches[i].field = "replicas"}

\* C35: a RolloutOneBatchPods call issues at most one replica patch, and a
\* replica patch sets the target to the batch's target goal or the source to
\* the batch's source goal, so that repeating the call for the same batch
\* moves neither workload past its goal.
C35_OnePatchToTheGoal ==
    [][ ret'.op = "RolloutOneBatchPods" =>
          /\ Len(patches') <= 1
          /\ \A i \in 1..Len(patches') :
                /\ patches'[i].field = "replicas"
                /\ \/ /\ patches'[i].deploy = "target"
                      /\ patches'[i].value = targetGoal(Total, Batch)
                   \/ /\ patches'[i].deploy = "source"
                      /\ patches'[i].value = sourceGoal(Total, Batch)
                /\ patches'[i].ok =>
                      cluster'[patches'[i].deploy].Replicas = patches'[i].value ]_vars

\* a repeated second half: the source's pods are already down to the goal
\* that the call patches again
C35_Witness ==
    /\ Returned("RolloutOneBatchPods")
    /\ ret.done
    /\ ReplicaPatches = {1}
    /\ patches[1].deploy = "source"
    /\ patches[1].ok
    /\ patches[1].value = sourceGoal(Total, Batch)
    /\ patches[1].value < MaxReplicas
    /\ cluster.source.StatusReplicas = patches[1].value
    /\ cluster.source.Replicas = patches[1].value

\* C36: VerifySpec, CheckOneBatchPods and FinalizeOneBatch never issue a
\* patch; FinalizeOneBatch changes no status field and returns no error.
C36_NoPatchPhases ==
    [][ /\ ret'.op \in {"VerifySpec", "CheckOneBatchPods", "FinalizeOneBatch"} =>
              /\ patches' = <<>>
              /\ cluster' = cluster
        /\ ret'.op = "FinalizeOneBatch" =>
              /\ rolloutStatus' = rolloutStatus
              /\ ret'.err = "nil" ]_vars

\* FinalizeOneBatch has returned for a batch that is not the last one
C36_Witness ==
    /\ Returned("FinalizeOneBatch")
    /\ patches = <<>>
    /\ Batch < LastBatch
    /\ rolloutStatus.UpgradedReplicas > 0

\* the owner references of a workload that are not the rollout's
OtherOwners(deploy) ==
    SelectSeq(deploy.OwnerReferences, LAMBDA o : o.Kind # "AppRollout")

C38_UnsetReplicasDefaulted ==
    ( /\ Returned("RolloutOneBatchPods")
      /\ ~ret.fetchErr
      /\ ~ReplicasSet )
    => ret.err # "panic"

====
